---- MODULE Spec2Model ----
(***************************************************************************)
(* Model of results_analysis.py: the batch report generator that reads    *)
(* closed trading positions, enriches and sorts them, and computes the     *)
(* monthly profit buckets, the win/loss breakdown, the Sharpe ratio and    *)
(* the per-symbol rollup.                                                  *)
(*                                                                         *)
(* Money is held in hundredths of a currency unit so that the arithmetic   *)
(* is exact: a profit of 10.0 is 1000 and TREASURY_MONTHLY_YIELD (0.12)    *)
(* is 12.  A quotient a / b is the record [num |-> a, den |-> b]; the      *)
(* population standard deviation of N values with sum S and sum of         *)
(* squares Q is sqrt(N*Q - S*S) / N, held as [radicand, den].  Binary      *)
(* floating point rounding is not modelled.                                *)
(***************************************************************************)
EXTENDS Integers, Sequences, FiniteSets, TLC

VARIABLES results, all_positions, pc, analysis, error, file, printed,
          monthly_profits, symbol_data

vars == <<results, all_positions, pc, analysis, error, file, printed,
          monthly_profits, symbol_data>>

\* Largest number of positions in the results file.
MaxLen == 3

TREASURY_MONTHLY_YIELD == 12

\* One results line per symbol, in file order.
Symbols == <<"AAPL", "MSFT">>

\* Profits of the input positions: a loss, a flat trade and a win.
Profits == {-400, 0, 1000}

\* Open timestamps (UTC epoch seconds) of the input positions:
\*   1580522400 = 2020-02-01 02:00 UTC = 2020-01-31 21:00 EST
\*   1594393200 = 2020-07-10 15:00 UTC = 2020-07-10 11:00 EDT
\*   1611154800 = 2021-01-20 15:00 UTC = 2021-01-20 10:00 EST
Timestamps == {1580522400, 1594393200, 1611154800}

\* Position namedtuple; only the fields the analysis reads are kept, and
\* every input position is closed one hour after it was opened.
Position ==
  { [open_timestamp |-> t, close_timestamp |-> t + 3600, profit |-> p] :
      t \in Timestamps, p \in Profits }

-----------------------------------------------------------------------------
\* Outcome of a call: a returned value or a raised exception.
Return(v) == [ok |-> TRUE, value |-> v]

Raise(type, line) == [ok |-> FALSE, type |-> type, line |-> line]

NoError == [ok |-> TRUE, type |-> "none", line |-> 0]

NoReport == [kind |-> "none"]

NoValue == [ok |-> FALSE, type |-> "not called", line |-> 0]

RECURSIVE sum(_)
sum(s) == IF s = <<>> THEN 0 ELSE s[1] + sum(Tail(s))

-----------------------------------------------------------------------------
\* Proleptic Gregorian calendar (datetime.utcfromtimestamp) and the
\* US/Eastern rule pytz applies to instants from 2007 on: daylight time
\* from the second Sunday of March 07:00 UTC to the first Sunday of
\* November 06:00 UTC.
CivilFromDays(z0) ==
  LET z   == z0 + 719468
      era == z \div 146097
      doe == z - era * 146097
      yoe == (doe - doe \div 1460 + doe \div 36524 - doe \div 146096) \div 365
      doy == doe - (365 * yoe + yoe \div 4 - yoe \div 100)
      mp  == (5 * doy + 2) \div 153
      d   == doy - (153 * mp + 2) \div 5 + 1
      m   == IF mp < 10 THEN mp + 3 ELSE mp - 9
      y   == yoe + era * 400 + (IF m <= 2 THEN 1 ELSE 0)
  IN  [year |-> y, month |-> m, day |-> d]

DaysFromCivil(y0, m, d) ==
  LET y   == IF m <= 2 THEN y0 - 1 ELSE y0
      era == y \div 400
      yoe == y - era * 400
      doy == (153 * (IF m > 2 THEN m - 3 ELSE m + 9) + 2) \div 5 + d - 1
      doe == yoe * 365 + yoe \div 4 - yoe \div 100 + doy
  IN  era * 146097 + doe - 719468

\* Day number (days since 1970-01-01) of the n-th Sunday of month m.
NthSunday(y, m, n) ==
  LET first == DaysFromCivil(y, m, 1)
      wd    == (first + 4) % 7
  IN  first + ((7 - wd) % 7) + 7 * (n - 1)

IsDaylightTime(ts) ==
  LET y == CivilFromDays(ts \div 86400).year
  IN  /\ ts >= NthSunday(y, 3, 2) * 86400 + 7 * 3600
      /\ ts <  NthSunday(y, 11, 1) * 86400 + 6 * 3600

\* An aware datetime: the instant it denotes and its US/Eastern wall date.
_utc_ts_to_et_dt(ts) ==
  LET local == ts - (IF IsDaylightTime(ts) THEN 4 ELSE 5) * 3600
      date  == CivilFromDays(local \div 86400)
  IN  [instant |-> ts, year |-> date.year, month |-> date.month,
       day |-> date.day, hour |-> (local % 86400) \div 3600]

date(dt) == [year |-> dt.year, month |-> dt.month, day |-> dt.day]

\* EnrichedPosition(*position, symbol, std_dev, open_datetime, close_datetime)
EnrichedPosition(position, symbol) ==
  [open_timestamp |-> position.open_timestamp,
   close_timestamp |-> position.close_timestamp,
   profit |-> position.profit,
   symbol |-> symbol,
   open_datetime |-> _utc_ts_to_et_dt(position.open_timestamp),
   close_datetime |-> _utc_ts_to_et_dt(position.close_timestamp)]

-----------------------------------------------------------------------------
\* all_positions.sort(key=lambda pos: pos.open_datetime): a stable sort;
\* aware datetimes are ordered by the instant they denote.
RECURSIVE insert(_, _)
insert(sorted, pos) ==
  IF sorted = <<>> THEN <<pos>>
  ELSE IF sorted[Len(sorted)].open_datetime.instant <= pos.open_datetime.instant
       THEN Append(sorted, pos)
       ELSE Append(insert(SubSeq(sorted, 1, Len(sorted) - 1), pos),
                   sorted[Len(sorted)])

RECURSIVE sort(_)
sort(positions) ==
  IF positions = <<>> THEN <<>>
  ELSE insert(sort(SubSeq(positions, 1, Len(positions) - 1)),
              positions[Len(positions)])

\* The two nested loops of main that build all_positions from results.
RECURSIVE enrich(_)
enrich(rs) ==
  IF rs = <<>> THEN <<>>
  ELSE [i \in 1..Len(rs[1].positions) |->
          EnrichedPosition(rs[1].positions[i], rs[1].symbol)]
       \o enrich(Tail(rs))

-----------------------------------------------------------------------------
\* The for loop of _calc_monthly_profits, from position number i on.
RECURSIVE monthly_loop(_, _, _, _, _)
\* monthly_loop without the update of curr_month at a month change
monthly_loop_stale_month(positions, i, res, curr_month, curr_result) ==
  IF i > Len(positions) THEN Append(res, curr_result)
  ELSE LET position == positions[i]
           month    == position.open_datetime.month
       IN  IF month # curr_month
           THEN monthly_loop(positions, i + 1, Append(res, curr_result),
                             curr_month, position.profit)
           ELSE monthly_loop(positions, i + 1, res,
                             curr_month, curr_result + position.profit)

\* monthly_loop restarting the running sum at 0.0 at a month change
monthly_loop_reset(positions, i, res, curr_month, curr_result) ==
  IF i > Len(positions) THEN Append(res, curr_result)
  ELSE LET position == positions[i]
           month    == position.open_datetime.month
       IN  IF month # curr_month
           THEN monthly_loop(positions, i + 1, Append(res, curr_result),
                             month, 0)
           ELSE monthly_loop(positions, i + 1, res,
                             curr_month, curr_result + position.profit)

monthly_loop(positions, i, res, curr_month, curr_result) ==
  IF i > Len(positions) THEN Append(res, curr_result)
  ELSE LET position == positions[i]
           month    == position.open_datetime.month
       IN  IF month # curr_month
           THEN monthly_loop(positions, i + 1, Append(res, curr_result),
                             month, position.profit)
           ELSE monthly_loop(positions, i + 1, res,
                             curr_month, curr_result + position.profit)

_calc_monthly_profits(positions) ==
  IF positions = <<>> THEN Raise("IndexError", 38)
  ELSE Return(monthly_loop(positions, 1, <<>>,
                           positions[1].open_datetime.month, 0))

-----------------------------------------------------------------------------
traded_days(positions) ==
  Cardinality({ <<positions[i].open_datetime.day,
                  positions[i].open_datetime.month,
                  positions[i].open_datetime.year>> : i \in 1..Len(positions) })

symbols(positions) == { positions[i].symbol : i \in 1..Len(positions) }

\* profits of the positions with the given symbol, in order
RECURSIVE symbol_profit(_, _)
\* symbol_profit with `=` in place of `+=`: the last profit of the symbol
symbol_profit_assign(positions, symbol) ==
  IF positions = <<>> THEN 0
  ELSE IF positions[Len(positions)].symbol = symbol
       THEN positions[Len(positions)].profit
       ELSE symbol_profit(SubSeq(positions, 1, Len(positions) - 1), symbol)

symbol_profit(positions, symbol) ==
  IF positions = <<>> THEN 0
  ELSE (IF positions[1].symbol = symbol THEN positions[1].profit ELSE 0)
       + symbol_profit(Tail(positions), symbol)

\* symbol_exec_n counting the open and the close of every position
symbol_exec_n_doubled(positions, symbol) ==
  2 * Cardinality({ i \in 1..Len(positions) : positions[i].symbol = symbol })

symbol_exec_n(positions, symbol) ==
  Cardinality({ i \in 1..Len(positions) : positions[i].symbol = symbol })

_generate_symbol_data(positions) ==
  LET traded_days_n == traded_days(positions)
  IN  [symbol_to_profit |->
         [s \in symbols(positions) |-> symbol_profit(positions, s)],
       symbol_to_exec_n |->
         [s \in symbols(positions) |-> symbol_exec_n(positions, s)],
       symbol_to_exec_avg_n |->
         [s \in symbols(positions) |->
            [num |-> symbol_exec_n(positions, s), den |-> traded_days_n]]]

-----------------------------------------------------------------------------
\* winning_trades with >= in place of >
winning_trades_ge(positions) == SelectSeq(positions, LAMBDA p : p.profit >= 0)

winning_trades(positions) == SelectSeq(positions, LAMBDA p : p.profit > 0)

losing_trades(positions) == SelectSeq(positions, LAMBDA p : p.profit < 0)

profits(positions) == [i \in 1..Len(positions) |-> positions[i].profit]

\* true_div dividing as numpy does: no exception on a zero divisor
true_div_no_raise(a, b, line) == Return([num |-> a, den |-> b])

\* Python's a / b on int and float operands: a zero divisor raises.
true_div(a, b, line) ==
  IF b = 0 THEN Raise("ZeroDivisionError", line)
  ELSE Return([num |-> a, den |-> b])

\* numpy.std(values): population standard deviation, sqrt(N*Q - S*S) / N.
numpy_std(values) ==
  LET N == Len(values)
      S == sum(values)
      Q == sum([i \in 1..N |-> values[i] * values[i]])
  IN  [radicand |-> N * Q - S * S, den |-> N]

\* float / numpy.float64: numpy's division, which raises nothing on a zero
\* divisor and yields inf, -inf or nan.
numpy_div(average, std_dev) ==
  IF std_dev.radicand # 0
  THEN [kind |-> "finite", num |-> average, den |-> std_dev]
  ELSE [kind |-> IF average.num > 0 THEN "inf"
                 ELSE IF average.num < 0 THEN "-inf" ELSE "nan",
        num |-> average, den |-> std_dev]

\* lines 123-158 of _generate_analysis, reached once both averages exist
sharpe_and_report(all_pos, days, avg_trades_per_day, avg_trades_per_day_per_symbol, average_win, average_loss) ==
  LET monthly == _calc_monthly_profits(all_pos)
  IN  IF ~monthly.ok THEN monthly
      ELSE
      LET mp              == monthly.value
          excess_profits  == [i \in 1..Len(mp) |-> mp[i] - TREASURY_MONTHLY_YIELD]
          excess_std_dev  == numpy_std(excess_profits)
          excess_average  == [num |-> sum(excess_profits),
                              den |-> Len(excess_profits)]
          sharpe_ratio    == numpy_div(excess_average, excess_std_dev)
      IN  Return(
           [kind |-> "report",
            general |->
              [start |-> date(all_pos[1].open_datetime),
               end |-> date(all_pos[Len(all_pos)].close_datetime),
               symbols_n |-> Cardinality(symbols(all_pos)),
               days_n |-> days,
               profit |-> sum(mp),
               exec_n |-> Len(all_pos) * 2,
               daily_exec_n |-> avg_trades_per_day,
               daily_exec_symbol_n |-> avg_trades_per_day_per_symbol],
            winning_trades |->
              [total_won |-> sum(profits(winning_trades(all_pos))),
               won_n |-> Len(winning_trades(all_pos)),
               average_win |-> average_win],
            losing_trades |->
              [total_lost |-> sum(profits(losing_trades(all_pos))),
               lost_n |-> Len(losing_trades(all_pos)),
               average_loss |-> average_loss],
            sharpe_ratio |->
              [us10y_monthly_yield |-> TREASURY_MONTHLY_YIELD,
               excess_average |-> excess_average,
               excess_std_dev |-> excess_std_dev,
               sharpe_ratio |-> sharpe_ratio],
            symbol_data |-> _generate_symbol_data(all_pos)])

_generate_analysis(all_pos) ==
  LET days      == traded_days(all_pos)
      exec_n    == Len(all_pos) * 2
      symbols_n == Cardinality(symbols(all_pos))
      avg_trades_per_day == true_div(exec_n, days, 108)
  IN  IF ~avg_trades_per_day.ok THEN avg_trades_per_day
      ELSE
      LET avg_trades_per_day_per_symbol ==
            true_div(symbols_n * days, exec_n, 109)
      IN  IF ~avg_trades_per_day_per_symbol.ok
          THEN avg_trades_per_day_per_symbol
          ELSE
          LET winning     == winning_trades(all_pos)
              average_win == true_div(sum(profits(winning)), Len(winning), 115)
          IN  IF ~average_win.ok THEN average_win
              ELSE
              LET losing       == losing_trades(all_pos)
                  average_loss == true_div(sum(profits(losing)), Len(losing), 121)
              IN  IF ~average_loss.ok THEN average_loss
                  ELSE sharpe_and_report(all_pos, days,
                                         avg_trades_per_day.value,
                                         avg_trades_per_day_per_symbol.value,
                                         average_win.value,
                                         average_loss.value)

-----------------------------------------------------------------------------
\* The contents of the results file: one line per symbol, the first k
\* positions of flat on the first line and the others on the second.
ResultsFile(flat, k) ==
  << [symbol |-> Symbols[1], positions |-> SubSeq(flat, 1, k)],
     [symbol |-> Symbols[2], positions |-> SubSeq(flat, k + 1, Len(flat))] >>

\* main, statement by statement.  pc names the statement to run next.
Init ==
  /\ \E n \in 0..MaxLen : \E flat \in [1..n -> Position] : \E k \in 0..n :
        results = ResultsFile(flat, k)
  /\ all_positions = <<>>
  /\ pc = "enrich"
  /\ analysis = NoReport
  /\ error = NoError
  /\ file = NoReport
  /\ printed = FALSE
  /\ monthly_profits = NoValue
  /\ symbol_data = NoValue

\* lines 225-236
Enrich ==
  /\ pc = "enrich"
  /\ all_positions' = enrich(results)
  /\ pc' = "sort"
  /\ UNCHANGED <<results, analysis, error, file, printed,
                 monthly_profits, symbol_data>>

\* line 238
Sort ==
  /\ pc = "sort"
  /\ all_positions' = sort(all_positions)
  /\ pc' = "analyse"
  /\ UNCHANGED <<results, analysis, error, file, printed,
                 monthly_profits, symbol_data>>

\* line 240: an exception of _generate_analysis leaves main
GenerateAnalysis ==
  /\ pc = "analyse"
  /\ LET r == _generate_analysis(all_positions)
     IN  IF r.ok
         THEN /\ analysis' = r.value
              /\ pc' = "dump"
              /\ UNCHANGED error
         ELSE /\ error' = r
              /\ pc' = "failed"
              /\ UNCHANGED analysis
  /\ UNCHANGED <<results, all_positions, file, printed,
                 monthly_profits, symbol_data>>

\* lines 241-242: json.dump(analysis, f, indent=4) into ANALYSIS_FILE.  The
\* file holds the report; json writes inf and nan as Infinity and NaN.
Dump ==
  /\ pc = "dump"
  /\ file' = analysis
  /\ pc' = "print"
  /\ UNCHANGED <<results, all_positions, analysis, error, printed,
                 monthly_profits, symbol_data>>

\* line 244: _print_analysis(analysis).  Only the fact that the summary was
\* printed is kept; its text and rounding are not.
PrintAnalysis ==
  /\ pc = "print"
  /\ printed' = TRUE
  /\ pc' = "done"
  /\ UNCHANGED <<results, all_positions, analysis, error, file,
                 monthly_profits, symbol_data>>

Next == Enrich \/ Sort \/ GenerateAnalysis \/ Dump \/ PrintAnalysis

Spec == Init /\ [][Next]_vars

-----------------------------------------------------------------------------
\* The functions called on their own with the position lists main builds.
CallInit ==
  /\ \E n \in 0..MaxLen : \E flat \in [1..n -> Position] : \E k \in 0..n :
        results = ResultsFile(flat, k)
  /\ all_positions = sort(enrich(results))
  /\ pc = "call"
  /\ analysis = NoReport
  /\ error = NoError
  /\ file = NoReport
  /\ printed = FALSE
  /\ monthly_profits = NoValue
  /\ symbol_data = NoValue

Call_calc_monthly_profits ==
  /\ pc = "call"
  /\ monthly_profits' = _calc_monthly_profits(all_positions)
  /\ pc' = "monthly"
  /\ UNCHANGED <<results, all_positions, analysis, error, file, printed,
                 symbol_data>>

Call_generate_symbol_data ==
  /\ pc = "call"
  /\ symbol_data' = Return(_generate_symbol_data(all_positions))
  /\ pc' = "symbol"
  /\ UNCHANGED <<results, all_positions, analysis, error, file, printed,
                 monthly_profits>>

Call_generate_analysis ==
  /\ pc = "call"
  /\ LET r == _generate_analysis(all_positions)
     IN  IF r.ok
         THEN analysis' = r.value /\ UNCHANGED error
         ELSE error' = r /\ UNCHANGED analysis
  /\ pc' = "analysis"
  /\ UNCHANGED <<results, all_positions, file, printed,
                 monthly_profits, symbol_data>>

CallNext ==
  \/ Call_calc_monthly_profits
  \/ Call_generate_symbol_data
  \/ Call_generate_analysis

CallSpec == CallInit /\ [][CallNext]_vars

-----------------------------------------------------------------------------
\* Vocabulary of the properties.

total_profit(positions) == sum(profits(positions))

Range(s) == { s[i] : i \in 1..Len(s) }

\* open-time month as a calendar month (a month of a year) and as a month
\* number
calendar_month(position) ==
  <<position.open_datetime.year, position.open_datetime.month>>

month_number(position) == position.open_datetime.month

\* positions at which a run of equal calendar months / month numbers ends
\* and the next one starts
calendar_breaks(positions) ==
  { i \in 2..Len(positions) :
      calendar_month(positions[i]) # calendar_month(positions[i - 1]) }

number_breaks(positions) ==
  { i \in 2..Len(positions) :
      month_number(positions[i]) # month_number(positions[i - 1]) }

\* profit of the k-th run, the runs being delimited by breaks
run_profit(positions, breaks, k) ==
  sum([i \in 1..Len(positions) |->
         IF 1 + Cardinality({ j \in breaks : j <= i }) = k
         THEN positions[i].profit ELSE 0])

run_profits(positions, breaks) ==
  [k \in 1..(1 + Cardinality(breaks)) |-> run_profit(positions, breaks, k)]

sorted_by_open_time(positions) ==
  \A i \in 2..Len(positions) :
     positions[i - 1].open_datetime.instant <= positions[i].open_datetime.instant

is_report(a) == a.kind = "report"

\* sum of the values of a mapping keyed by symbol
sum_by_symbol(mapping) ==
  sum([i \in 1..Len(Symbols) |->
         IF Symbols[i] \in DOMAIN mapping THEN mapping[Symbols[i]] ELSE 0])

\* The exception Python raises for taking an element of the empty list:
\* the error of the empty input itself.
is_empty_input_error(e) == ~e.ok /\ e.type = "IndexError"

\* The exception of total / count for a category without trades.
is_no_trades_error(e, line) ==
  ~e.ok /\ e.type = "ZeroDivisionError" /\ e.line = line

no_winning(positions) == \A i \in 1..Len(positions) : ~(positions[i].profit > 0)

no_losing(positions) == \A i \in 1..Len(positions) : ~(positions[i].profit < 0)

-----------------------------------------------------------------------------
\* C1: for every non-empty position list sorted by open time,
\* _calc_monthly_profits returns one entry per maximal contiguous run of
\* positions opened in the same calendar month (month and year), in input
\* order, each entry being the profit of its run.
C1_OneEntryPerCalendarMonthRun ==
  (pc = "monthly" /\ all_positions # <<>> /\ sorted_by_open_time(all_positions))
    => /\ monthly_profits.ok
       /\ monthly_profits.value =
            run_profits(all_positions, calendar_breaks(all_positions))

\* C10: _calc_monthly_profits compares month numbers only: the entries are
\* the profits of the maximal runs of equal month number, so adjacent
\* positions of the same month number in different years share an entry and
\* the number of entries is 1 plus the number of adjacent pairs whose month
\* numbers differ.
C10_BucketsByMonthNumber ==
  (pc = "monthly" /\ all_positions # <<>>)
    => /\ monthly_profits.ok
       /\ Len(monthly_profits.value) =
            1 + Cardinality(number_breaks(all_positions))
       /\ monthly_profits.value =
            run_profits(all_positions, number_breaks(all_positions))

C10_Witness ==
  /\ pc = "monthly"
  /\ monthly_profits.ok
  /\ \E i \in 2..Len(all_positions) :
        /\ month_number(all_positions[i]) = month_number(all_positions[i - 1])
        /\ calendar_month(all_positions[i]) # calendar_month(all_positions[i - 1])

\* C2: the entries of _calc_monthly_profits add up to the profit of all
\* positions, and so does general.profit of every report.
C2_ProfitConserved ==
  /\ (pc = "monthly" /\ all_positions # <<>>)
       => /\ monthly_profits.ok
          /\ sum(monthly_profits.value) = total_profit(all_positions)
  /\ (pc = "analysis" /\ is_report(analysis))
       => analysis.general.profit = total_profit(all_positions)

C2_Witness ==
  /\ pc = "analysis"
  /\ is_report(analysis)
  /\ number_breaks(all_positions) # {}
  /\ analysis.general.profit # 0

\* C4: no position is both a winning and a losing trade, a position of
\* profit 0 is neither and adds to no count or total, and
\* won_n + lost_n <= number of positions, with equality exactly when no
\* position has profit 0.
C4_OutcomeClassification ==
  pc = "analysis" =>
    LET W    == winning_trades(all_positions)
        L    == losing_trades(all_positions)
        N    == Len(all_positions)
        zero == { i \in 1..N : all_positions[i].profit = 0 }
    IN  /\ \A i \in 1..N :
             /\ ~(all_positions[i] \in Range(W) /\ all_positions[i] \in Range(L))
             /\ i \in zero => /\ all_positions[i] \notin Range(W)
                              /\ all_positions[i] \notin Range(L)
        /\ Len(W) + Len(L) = N - Cardinality(zero)
        /\ Len(W) + Len(L) <= N
        /\ (Len(W) + Len(L) = N) <=> (zero = {})
        /\ is_report(analysis) =>
             /\ analysis.winning_trades.won_n = Len(W)
             /\ analysis.losing_trades.lost_n = Len(L)
             /\ analysis.winning_trades.won_n + analysis.losing_trades.lost_n
                  = N - Cardinality(zero)
             /\ analysis.winning_trades.total_won
                  + analysis.losing_trades.total_lost
                  = total_profit(all_positions)

C4_Witness ==
  /\ pc = "analysis"
  /\ is_report(analysis)
  /\ \E i \in 1..Len(all_positions) : all_positions[i].profit = 0
  /\ analysis.winning_trades.won_n + analysis.losing_trades.lost_n
       < Len(all_positions)

\* C5: the values of symbol_to_profit add up to the profit of all positions
\* and its keys are exactly the symbols of the positions.
C5_SymbolProfitConserved ==
  pc = "symbol" =>
    /\ symbol_data.ok
    /\ DOMAIN symbol_data.value.symbol_to_profit = symbols(all_positions)
    /\ sum_by_symbol(symbol_data.value.symbol_to_profit)
         = total_profit(all_positions)

C5_Witness ==
  /\ pc = "symbol"
  /\ Cardinality(DOMAIN symbol_data.value.symbol_to_profit) = 2
  /\ \E s \in DOMAIN symbol_data.value.symbol_to_profit :
        /\ symbol_exec_n(all_positions, s) = 2
        /\ symbol_data.value.symbol_to_profit[s] = 600

\* C6: in every report general.exec_n is twice the number of positions,
\* symbol_to_exec_n counts one per position of the symbol, and general.exec_n
\* is twice the sum of symbol_to_exec_n.
C6_ExecCountAsymmetry ==
  is_report(analysis) =>
    /\ analysis.general.exec_n = 2 * Len(all_positions)
    /\ \A s \in DOMAIN analysis.symbol_data.symbol_to_exec_n :
          analysis.symbol_data.symbol_to_exec_n[s] =
            Len(SelectSeq(all_positions, LAMBDA p : p.symbol = s))
    /\ analysis.general.exec_n =
         2 * sum_by_symbol(analysis.symbol_data.symbol_to_exec_n)

C6_Witness ==
  /\ pc = "done"
  /\ is_report(file)
  /\ file.general.exec_n = 6
  /\ Cardinality(DOMAIN file.symbol_data.symbol_to_exec_n) = 2

\* C3: whenever the standard deviation of the excess returns is zero the
\* Sharpe ratio computation fails: no report holds a zero excess_std_dev
\* with an infinite, NaN or any other sharpe_ratio.
C3_ZeroDeviationFails ==
  (pc = "analysis" /\ is_report(analysis))
    => /\ analysis.sharpe_ratio.excess_std_dev.radicand # 0
       /\ analysis.sharpe_ratio.sharpe_ratio.kind = "finite"

\* C7: with no winning or no losing trade _generate_analysis fails with the
\* error of that category's average and returns no report.
C7_NoTradesInCategoryFails ==
  (pc \in {"failed", "dump", "print", "done"}
     /\ (no_winning(all_positions) \/ no_losing(all_positions)))
    => /\ pc = "failed"
       /\ analysis = NoReport
       /\ is_no_trades_error(error,
            IF no_winning(all_positions) THEN 115 ELSE 121)

\* C7 as amended: the same for a non-empty position list.
C7_NoTradesInCategoryFailsNonEmpty ==
  (pc \in {"failed", "dump", "print", "done"}
     /\ all_positions # <<>>
     /\ (no_winning(all_positions) \/ no_losing(all_positions)))
    => /\ pc = "failed"
       /\ analysis = NoReport
       /\ file = NoReport
       /\ is_no_trades_error(error,
            IF no_winning(all_positions) THEN 115 ELSE 121)

C7_Witness ==
  /\ pc = "failed"
  /\ all_positions # <<>>
  /\ ~no_winning(all_positions)
  /\ no_losing(all_positions)
  /\ error.line = 121

\* C8: given zero positions, _calc_monthly_profits and _generate_analysis
\* each fail with the error of the empty input, and no report is produced.
C8_EmptyInputError ==
  all_positions = <<>> =>
    /\ pc = "monthly" => is_empty_input_error(monthly_profits)
    /\ pc = "analysis" => /\ is_empty_input_error(error)
                          /\ analysis = NoReport

\* A core computation of the run has failed: an exception, or a Sharpe
\* ratio that is undefined.
core_failed ==
  \/ ~error.ok
  \/ /\ is_report(analysis)
     /\ analysis.sharpe_ratio.excess_std_dev.radicand = 0

\* C9: main writes and prints the report only after every core computation
\* has succeeded; a run in which one fails writes and prints nothing.
C9_AllOrNothing ==
  /\ (file # NoReport \/ printed)
       => /\ is_report(analysis)
          /\ file = analysis
          /\ ~core_failed
  /\ core_failed => (file = NoReport /\ ~printed)

====
